---- MODULE Spec2Model ----
(***************************************************************************)
(* Event dispatch and comment-command protocol of the EESSI build-and-     *)
(* deploy bot (eessi_bot_event_handler.py).                                *)
(*                                                                         *)
(* Text is modelled character by character: a Python str is a sequence of  *)
(* one-character strings, so that len(), slicing, split('\n') and string   *)
(* concatenation are computed the way the code computes them.              *)
(***************************************************************************)
EXTENDS Naturals, Sequences, FiniteSets

VARIABLES
    remote,     \* body of the PR comment as stored on GitHub
    exists,     \* whether the comment has been created on GitHub
    deleted,    \* whether the comment has been deleted on GitHub
    inflight,   \* the run of handle_issue_comment_event that has fetched the
                \* comment and not yet called edit; NoRun when there is none
    queue,      \* issue_comment webhook events delivered but not yet handled
    nUser,      \* number of user actions (create/edit) performed so far
    last,       \* what the most recent run of handle_issue_comment_event did
    u_pc,       \* CommentUpdater: position of the running update call
    u_in,       \* CommentUpdater: arguments of the call and the body at call time
    u_body,     \* CommentUpdater: body of the target comment
    u_run,      \* CommentUpdater: calls and attempts made by the running call
    u_out,      \* CommentUpdater: log written and failure propagated
    fn          \* the last application of a pure function: arguments and result

vars == <<remote, exists, deleted, inflight, queue, nUser, last, u_pc, u_in, u_body, u_run, u_out, fn>>
handlerVars == <<remote, exists, deleted, inflight, queue, nUser, last>>
updaterVars == <<u_pc, u_in, u_body, u_run, u_out>>

---------------------------------------------------------------------------
(* Bounds of the model *)

\* number of events users cause in one behaviour (a comment created or
\* edited, a PR opened, labeled or closed, an event of another type)
MaxUserActions == 3

\* largest retry budget an update call is started with
MaxBudget == 3

---------------------------------------------------------------------------
(* Text primitives *)

NL == "\n"

Whitespace == {" ", "\t", "\r", "\n"}

\* s[n:] of Python for 0 <= n
DropFirst(s, n) == IF n >= Len(s) THEN <<>> ELSE SubSeq(s, n + 1, Len(s))

\* s.startswith(p)
StartsWith(s, p) == Len(p) <= Len(s) /\ SubSeq(s, 1, Len(p)) = p

RECURSIVE LStrip(_)
LStrip(s) == IF s # <<>> /\ Head(s) \in Whitespace THEN LStrip(Tail(s)) ELSE s

RECURSIVE RStrip(_)
RStrip(s) ==
    IF s # <<>> /\ s[Len(s)] \in Whitespace THEN RStrip(SubSeq(s, 1, Len(s) - 1)) ELSE s

\* s.strip()
Strip(s) == RStrip(LStrip(s))

\* s.split(sep) for a one-character separator: always at least one element
RECURSIVE Split(_, _)
Split(s, sep) ==
    IF \A i \in 1..Len(s) : s[i] # sep
    THEN <<s>>
    ELSE LET k == CHOOSE i \in 1..Len(s) : s[i] = sep /\ \A j \in 1..(i - 1) : s[j] # sep
         IN  <<SubSeq(s, 1, k - 1)>> \o Split(DropFirst(s, k), sep)

\* s.split(): the whitespace-separated words of s
RECURSIVE Words(_)
Words(s) ==
    LET t == LStrip(s)
    IN  IF t = <<>>
        THEN <<>>
        ELSE LET stops == {i \in 1..Len(t) : t[i] \in Whitespace}
                 k == IF stops = {} THEN Len(t) + 1
                      ELSE CHOOSE i \in stops : \A j \in stops : i <= j
             IN  <<SubSeq(t, 1, k - 1)>> \o Words(DropFirst(t, k - 1))

\* ' '.join(ws)
RECURSIVE JoinWords(_)
JoinWords(ws) ==
    IF ws = <<>> THEN <<>>
    ELSE IF Len(ws) = 1 THEN ws[1]
    ELSE ws[1] \o <<" ">> \o JoinWords(Tail(ws))

\* '\n'.join(ls)
RECURSIVE JoinLines(_)
JoinLines(ls) ==
    IF ls = <<>> THEN <<>>
    ELSE IF Len(ls) = 1 THEN ls[1]
    ELSE ls[1] \o <<NL>> \o JoinLines(Tail(ls))

---------------------------------------------------------------------------
(* CommandMatcher: tools.commands.get_bot_command *)

\* the fixed prefix token "bot:"
BotPrefix == <<"b", "o", "t", ":">>

\* the command keywords: rebuild, cancel, disable
Keywords ==
    { <<"r", "e", "b", "u", "i", "l", "d">>,
      <<"c", "a", "n", "c", "e", "l">>,
      <<"d", "i", "s", "a", "b", "l", "e">> }

\* "nothing": the falsy result of the matcher
None == <<>>

get_bot_command_trimmed(line) ==
    LET t == Strip(line)
    IN  IF ~StartsWith(t, BotPrefix)
        THEN None
        ELSE LET ws == Words(DropFirst(t, Len(BotPrefix)))
             IN  IF ws # <<>> /\ ws[1] \in Keywords
                 THEN BotPrefix \o <<" ">> \o JoinWords(ws)
                 ELSE None

\* the normalised command of a line (prefix, keyword and modifiers separated
\* by single spaces), or None when the line is not a command. A command
\* begins with 'bot: ' at the first character of the line: whitespace at the
\* beginning of a line is not removed; whitespace at its end is
get_bot_command(line) ==
    LET t == RStrip(line)
    IN  IF ~StartsWith(t, BotPrefix \o <<" ">>)
        THEN None
        ELSE LET ws == Words(DropFirst(t, Len(BotPrefix)))
             IN  IF ws # <<>> /\ ws[1] \in Keywords
                 THEN BotPrefix \o <<" ">> \o JoinWords(ws)
                 ELSE None

---------------------------------------------------------------------------
(* SenderAuthorizer: tools.permissions.check_command_permission *)

Amy == <<"a", "m", "y">>
Eve == <<"e", "v", "e">>
\* the account the bot itself edits comments with
BotAccount == <<"e", "e", "s", "s", "i", "-", "b", "o", "t">>

\* accounts listed in the configuration setting 'command_permission';
\* the bot's own account is never listed
CommandPermission == {Amy}

\* TRUE iff the account is authorized to send commands to the bot
check_command_permission(sender) == sender \in CommandPermission

---------------------------------------------------------------------------
(* handle_issue_comment_event: the part before any GitHub call *)

comment_diff_prefix(action, comment_old, comment_new) ==
    IF action = "created"
    THEN comment_new
    ELSE IF action = "edited"
    THEN IF Len(comment_old) < Len(comment_new)
         THEN IF StartsWith(comment_new, comment_old)
              THEN DropFirst(comment_new, Len(comment_old))
              ELSE comment_new
         ELSE <<>>
    ELSE <<>>

comment_diff_whole(action, comment_old, comment_new) ==
    IF action \in {"created", "edited"} THEN comment_new ELSE <<>>

comment_diff_any_action(action, comment_old, comment_new) ==
    IF action = "edited"
    THEN IF Len(comment_old) < Len(comment_new)
         THEN DropFirst(comment_new, Len(comment_old))
         ELSE <<>>
    ELSE DropFirst(comment_new, 0)

\* what is new in the comment
comment_diff(action, comment_old, comment_new) ==
    IF action = "created"
    THEN DropFirst(comment_new, 0)
    ELSE IF action = "edited"
    THEN IF Len(comment_old) < Len(comment_new)
         THEN DropFirst(comment_new, Len(comment_old))
         ELSE <<>>
    ELSE <<>>

AckReceived ==
    <<"\n", "-", " ", "r", "e", "c", "e", "i", "v", "e", "d", " ",
      "b", "o", "t", " ", "c", "o", "m", "m", "a", "n", "d", " ">>
\* the backquote character: a string literal of TLA+ cannot hold it, so the
\* one-character string is written BACKTICK
Tick == <<"BACKTICK">>
AckFrom == <<" ", "f", "r", "o", "m", " ">> \o Tick

\* the loop over the lines of comment_diff that builds comment_update
RECURSIVE ScanLines(_, _)
ScanLines(lines, sender) ==
    IF lines = <<>>
    THEN <<>>
    ELSE LET bot_command == get_bot_command(Head(lines))
         IN  (IF bot_command # None
              THEN AckReceived \o Tick \o bot_command \o Tick \o AckFrom \o sender \o Tick
              ELSE <<>>)
             \o ScanLines(Tail(lines), sender)

comment_update(diff, sender) == ScanLines(Split(diff, NL), sender)

\* any(map(get_bot_command, text.split('\n')))
AnyBotCommand(text) ==
    LET lines == Split(text, NL)
    IN  \E i \in 1..Len(lines) : get_bot_command(lines[i]) # None

UpdateGuardInverted(update) == AnyBotCommand(update)

\* the self-command guard: the update may be written
UpdateGuard(update) == ~AnyBotCommand(update)

LocalsAlwaysWrite(ev) ==
    IF check_command_permission(ev.sender)
    THEN [branch |-> "REJECTED", comment_new |-> <<>>, comment_diff |-> <<>>,
          scanned |-> 0, comment_update |-> <<>>]
    ELSE LET diff == comment_diff(ev.action, ev.from, ev.body)
             update == comment_update(diff, ev.sender)
         IN  [branch |-> "WRITE",
              comment_new |-> ev.body,
              comment_diff |-> diff,
              scanned |-> Len(Split(diff, NL)),
              comment_update |-> update]

\* the local variables of the handler when it reaches the end of its
\* computation, and the branch it takes:
\*   REJECTED   returned at the permission check
\*   NO_UPDATE  returned because comment_update is empty
\*   GUARDED    the update is considered to contain a bot command
\*   WRITE      the GitHub calls are made
Locals(ev) ==
    IF check_command_permission(ev.sender)
    THEN [branch |-> "REJECTED", comment_new |-> <<>>, comment_diff |-> <<>>,
          scanned |-> 0, comment_update |-> <<>>]
    ELSE LET diff == comment_diff(ev.action, ev.from, ev.body)
             update == comment_update(diff, ev.sender)
         IN  [branch |-> IF update = <<>> THEN "NO_UPDATE"
                         ELSE IF UpdateGuard(update) THEN "WRITE"
                         ELSE "GUARDED",
              comment_new |-> ev.body,
              comment_diff |-> diff,
              scanned |-> Len(Split(diff, NL)),
              comment_update |-> update]

EditArgumentDiff(loc) == loc.comment_new \o loc.comment_diff

\* the body passed to issue_comment.edit
EditArgument(loc) == loc.comment_new \o loc.comment_update

\* the GitHub calls of the write path in call order; a failing call raises
\* and the calls after it are not made
GitHubCalls == <<"get_instance", "get_repo", "get_pull", "get_issue_comment", "edit">>

\* the calls up to and including the fetch of the comment
FetchCalls == SubSeq(GitHubCalls, 1, Len(GitHubCalls) - 1)

\* index of the failing call among FetchCalls; Len(FetchCalls) + 1 when the
\* comment is fetched
Faults == 2..(Len(FetchCalls) + 1)

\* the fault indices possible for a comment that is (not) gone from GitHub:
\* get_issue_comment cannot succeed on a deleted comment
FaultsWhen(gone) == {f \in Faults : gone => f <= Len(FetchCalls)}

CallsMade(fault) == SubSeq(FetchCalls, 1, IF fault > Len(FetchCalls) THEN Len(FetchCalls) ELSE fault)

\* whether issue_comment.edit can succeed: not on a deleted comment
EditOutcomes(gone) == IF gone THEN {FALSE} ELSE {TRUE, FALSE}

\* the name of the call that fails in a sequence of calls, "none" when the
\* fault index lies beyond the sequence
FaultName(calls, fault) == IF fault > Len(calls) THEN "none" ELSE calls[fault]

Suppressed(failing) == "none"

\* the exception that leaves a handler when the call `failing` raises: the
\* handlers have no try/except, the exception of the call leaves unchanged
Propagated(failing) == failing

---------------------------------------------------------------------------
(* Webhook deliveries and the comment on GitHub *)

LineRebuild == <<"b", "o", "t", ":", " ", "r", "e", "b", "u", "i", "l", "d">>
LineCancel == <<"b", "o", "t", ":", " ", "c", "a", "n", "c", "e", "l">>
LineHi == <<"h", "i">>

BodyRebuild == JoinLines(<<LineRebuild>>)
BodyTwoRebuilds == JoinLines(<<LineRebuild, LineRebuild>>)
BodyHi == JoinLines(<<LineHi>>)
BodyHiCancel == JoinLines(<<LineHi, LineCancel>>)
BodyDisable == <<"b", "o", "t", ":", " ", "d", "i", "s", "a", "b", "l", "e">>

\* comment bodies users write
Bodies == {BodyRebuild, BodyTwoRebuilds, BodyHi, BodyHiCancel, BodyDisable}

\* accounts of users commenting on the PR
Users == {Amy, Eve}

\* the payload fields the handler reads, and gen: 0 for an event a user
\* caused, k + 1 for the event caused by the bot's edit while it handled an
\* event of generation k
Event(action, sender, body, from, gen) ==
    [action |-> action, sender |-> sender, body |-> body, from |-> from, gen |-> gen]

NoEvent == Event("none", <<>>, <<>>, <<>>, 0)

\* what one run of an event handler did:
\*   type, label  X-GitHub-Event of the event and, for 'labeled', the label
\*   calls        the GitHub calls made, in order
\*   fault        the call the remote made fail, "none" when none failed
\*   exc          the exception that left the handler, named by the call
\*   fetched      body of the comment object get_issue_comment returned
\*   edit_arg     the body passed to issue_comment.edit
\*   handled      "issue_comment event handled!" was logged
\*   build, deploy, created   submit_build_jobs / deploy_built_artefacts was
\*                invoked, the comment create_issue_comment posted
\*   status       HTTP status of the Response handle_event returned, 0 for None
\*   note         the diagnostic logged for an event, action or label that has
\*                no handler
NoRun ==
    [ev |-> NoEvent, branch |-> "NONE", scanned |-> 0,
     comment_new |-> <<>>, comment_diff |-> <<>>, comment_update |-> <<>>,
     calls |-> <<>>, edit_arg |-> <<>>, raised |-> FALSE, handled |-> FALSE,
     type |-> "none", label |-> "none", fault |-> "none", exc |-> "none",
     fetched |-> <<>>, build |-> FALSE, deploy |-> FALSE, created |-> <<>>,
     status |-> 0, note |-> "none"]

HandlerInit ==
    /\ remote = <<>>
    /\ exists = FALSE
    /\ deleted = FALSE
    /\ inflight = NoRun
    /\ queue = <<>>
    /\ nUser = 0
    /\ last = NoRun

\* a user posts the comment: GitHub delivers action 'created'
UserCreate ==
    /\ ~exists
    /\ ~deleted
    /\ nUser < MaxUserActions
    /\ \E sender \in Users, body \in Bodies :
          /\ remote' = body
          /\ queue' = Append(queue, Event("created", sender, body, <<>>, 0))
    /\ exists' = TRUE
    /\ nUser' = nUser + 1
    /\ UNCHANGED <<deleted, inflight, last, updaterVars, fn>>

\* a user replaces the comment's body: GitHub delivers action 'edited' with
\* changes.body.from the body before the edit
UserEdit ==
    /\ exists
    /\ nUser < MaxUserActions
    /\ \E sender \in Users, body \in Bodies :
          /\ body # remote
          /\ remote' = body
          /\ queue' = Append(queue, Event("edited", sender, body, remote, 0))
    /\ nUser' = nUser + 1
    /\ UNCHANGED <<exists, deleted, inflight, last, updaterVars, fn>>

\* lines users add at the end of the comment
AppendedLines == {LineRebuild}

\* a user adds a line at the end of the comment as it is on GitHub
UserAppend ==
    /\ exists
    /\ nUser < MaxUserActions
    /\ \E sender \in Users, line \in AppendedLines :
          LET body == remote \o <<NL>> \o line
          IN  /\ remote' = body
              /\ queue' = Append(queue, Event("edited", sender, body, remote, 0))
    /\ nUser' = nUser + 1
    /\ UNCHANGED <<exists, deleted, inflight, last, updaterVars, fn>>

\* a user deletes the comment: GitHub delivers action 'deleted' with the
\* body the comment had; the comment can no longer be fetched
UserDelete ==
    /\ exists
    /\ nUser < MaxUserActions
    /\ \E sender \in Users :
          queue' = Append(queue, Event("deleted", sender, remote, <<>>, 0))
    /\ exists' = FALSE
    /\ deleted' = TRUE
    /\ nUser' = nUser + 1
    /\ UNCHANGED <<remote, inflight, last, updaterVars, fn>>

\* handle_issue_comment_event run on the oldest undelivered event, from its
\* first line to its return, to the exception a GitHub call raises, or to
\* the return of get_issue_comment: the handler holds nothing between that
\* fetch and its edit, so the comment may change on GitHub in between
HandleIssueComment ==
    /\ queue # <<>>
    /\ inflight = NoRun
    /\ LET ev == Head(queue)
           loc == Locals(ev)
           run == [NoRun EXCEPT
                     !.ev = ev, !.type = "issue_comment",
                     !.branch = loc.branch, !.scanned = loc.scanned,
                     !.comment_new = loc.comment_new,
                     !.comment_diff = loc.comment_diff,
                     !.comment_update = loc.comment_update,
                     !.handled = loc.branch = "GUARDED"]
       IN  IF loc.branch # "WRITE"
           THEN /\ last' = run
                /\ UNCHANGED inflight
           ELSE \E fault \in FaultsWhen(deleted) :
                  LET failing == FaultName(FetchCalls, fault)
                      exc == Propagated(failing)
                  IN  IF failing # "none"
                      THEN /\ last' = [run EXCEPT
                                         !.calls = CallsMade(fault),
                                         !.fault = failing,
                                         !.exc = exc,
                                         !.raised = exc # "none",
                                         !.handled = exc = "none"]
                           /\ UNCHANGED inflight
                      ELSE /\ inflight' = [run EXCEPT
                                             !.calls = CallsMade(fault),
                                             !.fetched = remote]
                           /\ UNCHANGED last
    /\ queue' = Tail(queue)
    /\ UNCHANGED <<remote, exists, deleted, nUser, updaterVars, fn>>

\* the rest of the run in flight: issue_comment.edit(comment_new +
\* comment_update) on the comment as it is on GitHub by now, then the
\* 'handled' log line; GitHub reports a successful edit as an 'edited' event
\* by the bot's account
HandleIssueCommentEdit ==
    /\ inflight # NoRun
    /\ \E ok \in EditOutcomes(deleted) :
          LET arg == EditArgument(inflight)
              failing == IF ok THEN "none" ELSE "edit"
              exc == Propagated(failing)
          IN  /\ last' = [inflight EXCEPT
                            !.calls = GitHubCalls,
                            !.fault = failing,
                            !.exc = exc,
                            !.edit_arg = arg,
                            !.raised = exc # "none",
                            !.handled = exc = "none"]
              /\ remote' = IF ok THEN arg ELSE remote
              /\ queue' = IF ok
                          THEN Append(queue, Event("edited", BotAccount, arg, remote,
                                                   inflight.ev.gen + 1))
                          ELSE queue
    /\ inflight' = NoRun
    /\ UNCHANGED <<exists, deleted, nUser, updaterVars, fn>>

---------------------------------------------------------------------------
(* pull_request events, installation events and unsupported event types *)

\* accounts listed in the configuration setting 'build_permission'
BuildPermission == {Amy}

\* tasks.build.check_build_permission: TRUE iff the account that caused the
\* event may trigger builds
check_build_permission(sender) == sender \in BuildPermission

\* values of event_info['action'] of a pull_request event
PRActions == {"labeled", "opened", "closed"}

\* values of label.name of a 'labeled' event
Labels == {"bot:build", "bot:deploy", "bot:unknown"}

\* hasattr(self, 'handle_pull_request_%s_event' % action)
HasPRHandler(action) == action \in {"labeled", "opened"}

handle_pull_request_labeled_event_unchecked(label, sender) ==
    IF label = "bot:build"
    THEN [branch |-> "BUILD", build |-> TRUE, deploy |-> FALSE, note |-> "none"]
    ELSE IF label = "bot:deploy"
    THEN [branch |-> "DEPLOY", build |-> FALSE, deploy |-> TRUE, note |-> "none"]
    ELSE [branch |-> "NO_LABEL_HANDLER", build |-> FALSE, deploy |-> FALSE,
          note |-> "no handler for label"]

handle_pull_request_labeled_event_deploy_checked(label, sender) ==
    IF label = "bot:build"
    THEN IF check_build_permission(sender)
         THEN [branch |-> "BUILD", build |-> TRUE, deploy |-> FALSE, note |-> "none"]
         ELSE [branch |-> "BUILD_DENIED", build |-> FALSE, deploy |-> FALSE, note |-> "none"]
    ELSE IF label = "bot:deploy"
    THEN [branch |-> "DEPLOY", build |-> FALSE,
          deploy |-> check_build_permission(sender), note |-> "none"]
    ELSE [branch |-> "NO_LABEL_HANDLER", build |-> FALSE, deploy |-> FALSE,
          note |-> "no handler for label"]

handle_pull_request_labeled_event_fallthrough(label, sender) ==
    IF label = "bot:build"
    THEN IF check_build_permission(sender)
         THEN [branch |-> "BUILD", build |-> TRUE, deploy |-> FALSE, note |-> "none"]
         ELSE [branch |-> "BUILD_DENIED", build |-> FALSE, deploy |-> FALSE, note |-> "none"]
    ELSE [branch |-> "DEPLOY", build |-> FALSE, deploy |-> TRUE, note |-> "none"]

\* the branch handle_pull_request_labeled_event takes and the functions it
\* invokes
handle_pull_request_labeled_event(label, sender) ==
    IF label = "bot:build"
    THEN IF check_build_permission(sender)
         THEN [branch |-> "BUILD", build |-> TRUE, deploy |-> FALSE, note |-> "none"]
         ELSE [branch |-> "BUILD_DENIED", build |-> FALSE, deploy |-> FALSE, note |-> "none"]
    ELSE IF label = "bot:deploy"
    THEN [branch |-> "DEPLOY", build |-> FALSE, deploy |-> TRUE, note |-> "none"]
    ELSE [branch |-> "NO_LABEL_HANDLER", build |-> FALSE, deploy |-> FALSE,
          note |-> "no handler for label"]

\* s.join(parts)
RECURSIVE Join(_, _)
Join(parts, sep) ==
    IF parts = <<>> THEN <<>>
    ELSE IF Len(parts) = 1 THEN parts[1]
    ELSE parts[1] \o sep \o Join(Tail(parts), sep)

\* self.cfg['github']['app_name']
AppName == <<"b", "o", "t">>

\* get_repo_cfg(self.cfg)['repo_target_map']: architectures in key order,
\* each with its repository ids
RepoTargetMap ==
    << [arch |-> <<"l", "i", "n", "u", "x", "/", "x", "8", "6", "_", "6", "4", "/",
                   "g", "e", "n", "e", "r", "i", "c">>,
        repos |-> << <<"e", "e", "s", "s", "i">> >>] >>

RECURSIVE RepoLines(_, _)
RepoLines(arch, repos) ==
    IF repos = <<>>
    THEN <<>>
    ELSE <<"\n", "-", " ", "a", "r", "c", "h", " ">> \o Tick
         \o Join(Tail(Split(arch, "/")), <<"/">>) \o Tick
         \o <<" ", "f", "o", "r", " ", "r", "e", "p", "o", " ">> \o Tick
         \o Head(repos) \o Tick
         \o RepoLines(arch, Tail(repos))

RECURSIVE ArchLines(_)
ArchLines(map) ==
    IF map = <<>> THEN <<>>
    ELSE RepoLines(Head(map).arch, Head(map).repos) \o ArchLines(Tail(map))

\* the comment handle_pull_request_opened_event posts
OpenedComment ==
    <<"I", "n", "s", "t", "a", "n", "c", "e", " ">> \o Tick \o AppName \o Tick
    \o <<" ", "i", "s", " ", "c", "o", "n", "f", "i", "g", "u", "r", "e", "d", " ",
          "t", "o", " ", "b", "u", "i", "l", "d", ":">>
    \o ArchLines(RepoTargetMap)

\* the GitHub calls of handle_pull_request_event and, for 'opened', of
\* handle_pull_request_opened_event, in call order
PRCalls(action) ==
    <<"get_instance", "get_repo", "get_pull">>
    \o (IF action = "opened"
        THEN <<"get_instance", "get_repo", "get_pull", "create_issue_comment">>
        ELSE <<>>)

\* the indices of the calls that may fail, and Len(calls) + 1 for no failure
FaultsOf(calls) ==
    {i \in 1..(Len(calls) + 1) : i > Len(calls) \/ calls[i] # "get_instance"}

\* a user opens, labels or closes the PR: handle_pull_request_event runs
\* on the event, from its first line to its return or to the exception a
\* GitHub call raises
HandlePullRequest ==
    /\ inflight = NoRun
    /\ nUser < MaxUserActions
    /\ \E action \in PRActions, sender \in Users, label \in Labels :
          /\ action # "labeled" => label = "bot:unknown"
          /\ \E fault \in FaultsOf(PRCalls(action)) :
                LET calls == PRCalls(action)
                    failing == FaultName(calls, fault)
                    made == SubSeq(calls, 1, IF fault > Len(calls) THEN Len(calls) ELSE fault)
                    dispatched == fault > 3
                    labeled == handle_pull_request_labeled_event(label, sender)
                    run == [NoRun EXCEPT
                              !.ev = Event(action, sender, <<>>, <<>>, 0),
                              !.type = "pull_request",
                              !.label = IF action = "labeled" THEN label ELSE "none",
                              !.calls = made,
                              !.fault = failing,
                              !.exc = Propagated(failing),
                              !.raised = Propagated(failing) # "none"]
                IN  /\ last' =
                          IF ~dispatched
                          THEN [run EXCEPT !.branch = "PR_NOT_FETCHED"]
                          ELSE IF ~HasPRHandler(action)
                          THEN [run EXCEPT !.branch = "NO_ACTION_HANDLER",
                                           !.note = "No handler for PR action"]
                          ELSE IF action = "labeled"
                          THEN [run EXCEPT !.branch = labeled.branch,
                                           !.build = labeled.build,
                                           !.deploy = labeled.deploy,
                                           !.note = labeled.note]
                          ELSE [run EXCEPT !.branch = "OPENED",
                                           !.created = IF failing = "none"
                                                       THEN OpenedComment ELSE <<>>]
                    /\ queue' = IF action = "opened" /\ failing = "none"
                                THEN Append(queue, Event("created", BotAccount,
                                                         OpenedComment, <<>>, 1))
                                ELSE queue
    /\ nUser' = nUser + 1
    /\ UNCHANGED <<remote, exists, deleted, inflight, updaterVars, fn>>

\* handlers.event_handlers: the event types a handler is registered for
EventHandlers == {"issue_comment", "pull_request", "installation"}

\* X-GitHub-Event values of events that are neither issue_comment nor
\* pull_request events
OtherTypes == {"installation", "push"}

ResponseStatusNone(event_type) == 0

\* handle_event: HTTP status of the flask.Response returned, 0 when the
\* function returns None
ResponseStatus(event_type) == IF event_type \in EventHandlers THEN 0 ELSE 400

\* handle_event on an event of another type: handle_installation_event for
\* an installation event, the unsupported-type path otherwise
HandleOther ==
    /\ inflight = NoRun
    /\ nUser < MaxUserActions
    /\ \E type \in OtherTypes, sender \in Users :
          last' = [NoRun EXCEPT
                     !.ev = Event("created", sender, <<>>, <<>>, 0),
                     !.type = type,
                     !.branch = IF type \in EventHandlers
                                THEN "INSTALLATION" ELSE "UNSUPPORTED_TYPE",
                     !.note = IF type \in EventHandlers
                              THEN "none" ELSE "Unsupported event type",
                     !.status = ResponseStatus(type)]
    /\ nUser' = nUser + 1
    /\ UNCHANGED <<remote, exists, deleted, inflight, queue, updaterVars, fn>>

---------------------------------------------------------------------------
(* CommentUpdater: tools.pr_comments.update_comment *)

\* default of max_retries
MaxRetries == 3

BodyOrg ==
    <<"_", "_", "O", "R", "G", "-", "c", "o", "m", "m", "e", "n", "t", "_", "_">>
BodyFoo == <<"f", "o", "o">>
SuffixBody0 == <<"b", "o", "d", "y", "-", "0">>

\* a suffix is a str, or a value of another type (42) that cannot be
\* concatenated to the body
StrSuffix(text) == [is_str |-> TRUE, text |-> text]
IntSuffix == [is_str |-> FALSE, text |-> <<"4", "2">>]
Suffixes == {StrSuffix(SuffixBody0), StrSuffix(LineRebuild), IntSuffix}

UpdaterIdle ==
    [cmnt_id |-> 0, update |-> StrSuffix(<<>>), max_retries |-> 0,
     present |-> FALSE, body0 |-> <<>>]

NoCounts ==
    [fetch_calls |-> 0, fetch_failed |-> 0, fetch_attempts |-> 0,
     write_attempts |-> 0, edit_calls |-> 0, edit_failed |-> 0, obtained |-> <<>>]

NoOutput == [log |-> <<>>, exc |-> "none"]

UpdaterInit ==
    /\ u_pc = "idle"
    /\ u_in = UpdaterIdle
    /\ u_body = <<>>
    /\ u_run = NoCounts
    /\ u_out = NoOutput

\* the budget of a phase is used up after `attempts` attempts (the first
\* attempt counts)
ExhaustedOffByOne(attempts, max_retries) == attempts > max_retries

Exhausted(attempts, max_retries) == attempts >= max_retries

BodyOverwritten(old_body, new_suffix) == new_suffix

\* the body written by a successful edit
NewBody(old_body, new_suffix) == old_body \o new_suffix

MissingRaises == "raised"

\* how the call ends when the fetch returns no comment
MissingOutcome == "returned"

RetryStaleObject == "write"

\* where a failed write that has budget left continues: the comment is
\* fetched again
AfterFailedWrite == "refetch"

MissingMessage(cmnt_id, update) ==
    [msg |-> "no comment with id %s, skipping update '%s'", id |-> cmnt_id, update |-> update]

\* update(comment_id, reader, new_suffix, max_retries) is called
UpdateCall ==
    /\ u_pc = "idle"
    /\ \E id \in {0, 1}, update \in Suffixes, max \in 1..MaxBudget,
          present \in BOOLEAN, body \in {BodyOrg, BodyFoo} :
          /\ u_in' = [cmnt_id |-> id, update |-> update, max_retries |-> max,
                      present |-> present, body0 |-> IF present THEN body ELSE <<>>]
          /\ u_body' = IF present THEN body ELSE <<>>
    /\ u_pc' = "fetch"
    /\ u_run' = NoCounts
    /\ u_out' = NoOutput
    /\ UNCHANGED <<handlerVars, fn>>

\* step 1, an attempt of the fetch phase fails
FetchFails ==
    /\ u_pc = "fetch"
    /\ u_run' = [u_run EXCEPT !.fetch_calls = @ + 1, !.fetch_failed = @ + 1,
                              !.fetch_attempts = @ + 1]
    /\ u_out' = [u_out EXCEPT !.exc = "GetIssueCommentException"]
    /\ u_pc' = IF Exhausted(u_run.fetch_attempts + 1, u_in.max_retries)
               THEN "raised" ELSE "fetch"
    /\ UNCHANGED <<u_in, u_body, handlerVars, fn>>

\* step 1 succeeds: a comment object (step 4 follows) or no comment (step 3)
FetchSucceeds ==
    /\ u_pc = "fetch"
    /\ u_run' = [u_run EXCEPT !.fetch_calls = @ + 1, !.fetch_attempts = @ + 1,
                              !.obtained = u_body]
    /\ IF u_in.present
       THEN /\ u_pc' = "write"
            /\ u_out' = [u_out EXCEPT !.exc = "none"]
       ELSE /\ u_pc' = MissingOutcome
            /\ u_out' = [log |-> Append(u_out.log, MissingMessage(u_in.cmnt_id, u_in.update)),
                         exc |-> IF MissingOutcome = "raised" THEN "MissingComment" ELSE "none"]
    /\ UNCHANGED <<u_in, u_body, handlerVars, fn>>

\* step 4, the edit fails: a remote error, or old_body + new_suffix with a
\* suffix that is no str
EditFails ==
    /\ u_pc = "write"
    /\ \E remote_error \in BOOLEAN :
          /\ remote_error \/ ~u_in.update.is_str
          /\ u_out' = [u_out EXCEPT !.exc = IF u_in.update.is_str
                                            THEN "EditIssueCommentException"
                                            ELSE "TypeError"]
    /\ u_run' = [u_run EXCEPT !.edit_calls = @ + 1, !.edit_failed = @ + 1,
                              !.write_attempts = @ + 1]
    /\ u_pc' = IF Exhausted(u_run.write_attempts + 1, u_in.max_retries)
               THEN "raised" ELSE AfterFailedWrite
    /\ UNCHANGED <<u_in, u_body, handlerVars, fn>>

\* step 4, the edit succeeds
EditSucceeds ==
    /\ u_pc = "write"
    /\ u_in.update.is_str
    /\ u_body' = NewBody(u_run.obtained, u_in.update.text)
    /\ u_run' = [u_run EXCEPT !.edit_calls = @ + 1, !.write_attempts = @ + 1]
    /\ u_out' = [u_out EXCEPT !.exc = "none"]
    /\ u_pc' = "returned"
    /\ UNCHANGED <<u_in, handlerVars, fn>>

\* a retry of the write first fetches the comment again
RefetchSucceeds ==
    /\ u_pc = "refetch"
    /\ u_run' = [u_run EXCEPT !.fetch_calls = @ + 1, !.obtained = u_body]
    /\ u_pc' = "write"
    /\ UNCHANGED <<u_in, u_body, u_out, handlerVars, fn>>

\* the fetch of a write retry fails: the retry has failed
RefetchFails ==
    /\ u_pc = "refetch"
    /\ u_run' = [u_run EXCEPT !.fetch_calls = @ + 1, !.fetch_failed = @ + 1,
                              !.write_attempts = @ + 1]
    /\ u_out' = [u_out EXCEPT !.exc = "GetIssueCommentException"]
    /\ u_pc' = IF Exhausted(u_run.write_attempts + 1, u_in.max_retries)
               THEN "raised" ELSE "refetch"
    /\ UNCHANGED <<u_in, u_body, handlerVars, fn>>

UpdaterStep ==
    \/ FetchFails
    \/ FetchSucceeds
    \/ EditFails
    \/ EditSucceeds
    \/ RefetchSucceeds
    \/ RefetchFails

---------------------------------------------------------------------------
(* Specifications *)

\* no pure function applied yet
NoApplication == [op |-> "none"]

Init == HandlerInit /\ UpdaterInit /\ fn = NoApplication

Next ==
    \/ UserCreate
    \/ UserEdit
    \/ UserAppend
    \/ UserDelete
    \/ HandleIssueComment
    \/ HandleIssueCommentEdit
    \/ HandlePullRequest
    \/ HandleOther

\* webhook events of one PR comment and their handling
Spec == Init /\ [][Next]_vars

---------------------------------------------------------------------------
(* The pure functions applied to chosen arguments *)

TextAb == <<"a", "b">>
TextAbcd == <<"a", "b", "c", "d">>
TextHello == <<"h", "e", "l", "l", "o">>

\* old and new bodies the differ is applied to
DiffTexts == Bodies \cup {<<>>, TextAb, TextAbcd, TextHello}

\* values of request_body['action'] of an issue_comment event
CommentActions == {"created", "edited", "deleted"}

\* comment_diff as the handler computes it from action, changes.body.from
\* and comment.body
ApplyDiff ==
    /\ \E action \in CommentActions, old \in DiffTexts, new \in DiffTexts :
          fn' = [op |-> "comment_diff", action |-> action, old |-> old, new |-> new,
                 result |-> comment_diff(action, old, new)]
    /\ UNCHANGED <<handlerVars, updaterVars>>

\* whitespace put before and after a line
Margins == {<<>>, <<" ">>, <<" ", " ">>, <<"\t">>}

LineTextRebuild ==
    <<"t", "e", "x", "t", " ", "b", "o", "t", ":", " ", "r", "e", "b", "u", "i", "l", "d">>
LineRebuildIntel ==
    <<"b", "o", "t", ":", " ", "r", "e", "b", "u", "i", "l", "d", " ", " ",
      "a", "r", "c", "h", ":", "i", "n", "t", "e", "l">>
LineUnknown == <<"b", "o", "t", ":", " ", "u", "n", "k", "n", "o", "w", "n">>
LineNoSpace == <<"b", "o", "t", ":", "r", "e", "b", "u", "i", "l", "d">>
LineCapital == <<"B", "o", "t", ":", " ", "r", "e", "b", "u", "i", "l", "d">>
LineQuoted == <<">", " ", "b", "o", "t", ":", " ", "c", "a", "n", "c", "e", "l">>

\* lines the matcher is applied to
MatchLines ==
    {lead \o core \o trail :
        lead \in Margins, trail \in Margins,
        core \in {<<>>, BotPrefix, LineRebuild, LineCancel, LineHi, LineTextRebuild,
                  LineRebuildIntel, LineUnknown, LineNoSpace, LineCapital, LineQuoted}}

\* get_bot_command applied to one line
ApplyMatch ==
    /\ \E line \in MatchLines :
          fn' = [op |-> "get_bot_command", line |-> line,
                 result |-> get_bot_command(line)]
    /\ UNCHANGED <<handlerVars, updaterVars>>

PureNext ==
    \/ ApplyDiff
    \/ ApplyMatch

\* the differ and the matcher on their own
PureSpec == Init /\ [][PureNext]_vars

UpdaterNext ==
    \/ UpdateCall
    \/ UpdaterStep

\* one call of the comment updater against a failing remote
UpdaterSpec == Init /\ [][UpdaterNext]_vars

\* a remote call returns or raises, and the caller then runs on: a running
\* update call always takes its next step
FairUpdaterSpec == UpdaterSpec /\ WF_vars(UpdaterStep)

---------------------------------------------------------------------------
(* Properties of handle_issue_comment_event, checked under Spec *)

\* a run of the handler has happened
HandlerRan == last.type = "issue_comment"

\* number of times the last run called the GitHub operation `name`
CallCount(name) == Cardinality({i \in DOMAIN last.calls : last.calls[i] = name})

\* the last run called issue_comment.edit
EditIssued == CallCount("edit") > 0

\* the new text of the event the last run handled
NewText == comment_diff(last.ev.action, last.ev.from, last.ev.body)

\* the text the edit of the last run appends to the event's comment body
Appended == DropFirst(last.edit_arg, Len(last.ev.body))

\* the annotation entry for one command
Entry(command, sender) ==
    AckReceived \o Tick \o command \o Tick \o AckFrom \o sender \o Tick

\* C1: an issue_comment event whose sender fails the permission check ends
\* REJECTED: no line is scanned, no annotation is composed, and no comment is
\* fetched or edited.
C1_UnauthorizedSenderRejected ==
    (HandlerRan /\ ~check_command_permission(last.ev.sender))
        => /\ last.branch = "REJECTED"
           /\ last.scanned = 0
           /\ last.comment_update = <<>>
           /\ last.calls = <<>>

\* C2: the 'edited' event that the bot's own edit causes (sender the bot's
\* account, which has no command permission) never leads to a further edit
\* of the comment, so a user's event causes at most one bot edit.
C2_NoSelfTriggeredEdit ==
    (HandlerRan /\ last.ev.sender = BotAccount /\ last.ev.gen > 0) => ~EditIssued

\* C3: whenever the handler issues a comment edit, the text it appends is the
\* annotation comment_update and no line of it is recognised as a bot command
\* (equivalently: if a line of the annotation matches, no edit is issued).
C3_SelfCommandGuard ==
    EditIssued
        => /\ Appended = last.comment_update
           /\ LET lines == Split(Appended, NL)
              IN  \A i \in 1..Len(lines) : get_bot_command(lines[i]) = None

C3_Witness ==
    /\ EditIssued
    /\ ~last.raised
    /\ Len(Split(Appended, NL)) = 3
    /\ remote = last.edit_arg

\* C4 as stated: for an event whose new text is the two lines 'bot: rebuild'
\* and 'bot: rebuild' the handler performs no comment edit.
C4_TwoRebuildsNoEdit ==
    (HandlerRan /\ NewText = BodyTwoRebuilds) => ~EditIssued

\* C4 amended: when the handler gets past the permission check for an event
\* whose new text is the two lines 'bot: rebuild' and 'bot: rebuild', the
\* annotation holds one entry per line, none of its lines is a command, the
\* self-command guard passes and the handler goes on to the GitHub calls;
\* unless one of them raises, the comment is edited to body + annotation.
C4_TwoRebuildsAcknowledged ==
    (HandlerRan /\ last.branch # "REJECTED" /\ NewText = BodyTwoRebuilds)
        => /\ last.comment_update =
                  Entry(LineRebuild, last.ev.sender) \o Entry(LineRebuild, last.ev.sender)
           /\ ~AnyBotCommand(last.comment_update)
           /\ last.branch = "WRITE"
           /\ last.raised \/ (EditIssued /\ last.edit_arg = last.ev.body \o last.comment_update)

C4_Witness ==
    /\ HandlerRan
    /\ NewText = BodyTwoRebuilds
    /\ EditIssued
    /\ ~last.raised
    /\ remote = BodyTwoRebuilds \o last.comment_update

\* C10: when fetching or editing the comment fails during the handler, the
\* attempt is repeated, up to 3 attempts in total, before the failure is
\* propagated.
C10_WriteRetried ==
    (HandlerRan /\ last.raised /\ CallCount("get_issue_comment") > 0)
        => CallCount("get_issue_comment") = MaxRetries

---------------------------------------------------------------------------
(* Properties of the comment updater, checked under UpdaterSpec *)

Running == u_pc \in {"fetch", "write", "refetch"}
Finished == u_pc \in {"returned", "raised"}

\* C5: if every fetch fails, update makes exactly max_retries fetch calls
\* (3 for the default), makes no write, leaves the body unchanged, logs
\* nothing and propagates the fetch failure.
C5_FetchAlwaysFails ==
    (u_pc # "idle" /\ u_run.fetch_failed = u_run.fetch_calls)
        => /\ u_run.edit_calls = 0
           /\ u_body = u_in.body0
           /\ Finished => /\ u_pc = "raised"
                          /\ u_run.fetch_calls = u_in.max_retries
                          /\ u_out.exc = "GetIssueCommentException"
                          /\ u_out.log = <<>>

C5_Witness ==
    /\ u_pc = "raised"
    /\ u_in.max_retries = MaxRetries
    /\ u_in.present
    /\ u_run.fetch_failed = 3
    /\ u_run.fetch_calls = 3

\* C6: if every fetch succeeds and every edit fails (a remote error, or a
\* suffix that is no str), the comment is fetched again for each retry:
\* max_retries fetch calls (3 for the default) and as many edits are made,
\* the body stays unchanged and the last failure is propagated.
C6_WriteAlwaysFails ==
    (Finished /\ u_run.fetch_failed = 0 /\ u_run.edit_calls > 0
              /\ u_run.edit_failed = u_run.edit_calls)
        => /\ u_pc = "raised"
           /\ u_run.fetch_calls = u_in.max_retries
           /\ u_run.edit_calls = u_in.max_retries
           /\ u_body = u_in.body0
           /\ u_out.log = <<>>
           /\ u_out.exc = IF u_in.update.is_str
                          THEN "EditIssueCommentException" ELSE "TypeError"

C6_Witness ==
    /\ u_pc = "raised"
    /\ u_in.max_retries = MaxRetries
    /\ ~u_in.update.is_str
    /\ u_run.fetch_failed = 0
    /\ u_run.fetch_calls = 3
    /\ u_run.edit_failed = 3

\* C7: if the fetch fails k < max_retries times and then succeeds, and the
\* write succeeds, update makes exactly k + 1 fetch calls and one write, the
\* body becomes old_body + new_suffix and no failure is propagated.
C7_SuccessPath ==
    (Finished /\ u_run.edit_calls > 0 /\ u_run.edit_failed = 0)
        => /\ u_pc = "returned"
           /\ u_run.fetch_failed < u_in.max_retries
           /\ u_run.fetch_calls = u_run.fetch_failed + 1
           /\ u_run.edit_calls = 1
           /\ u_body = u_in.body0 \o u_in.update.text
           /\ u_out.exc = "none"
           /\ u_out.log = <<>>

C7_Witness ==
    /\ u_pc = "returned"
    /\ u_in.max_retries = MaxRetries
    /\ u_run.fetch_failed = 1
    /\ u_run.fetch_calls = 2
    /\ u_in.body0 = BodyOrg
    /\ u_body = BodyOrg \o SuffixBody0

\* C8: if the fetch succeeds but returns no comment, update makes no write,
\* logs "no comment with id <id>, skipping update '<new_suffix>'" and returns
\* without propagating a failure.
C8_MissingComment ==
    (Finished /\ ~u_in.present /\ u_run.fetch_calls > u_run.fetch_failed)
        => /\ u_pc = "returned"
           /\ u_run.edit_calls = 0
           /\ u_out.log = <<MissingMessage(u_in.cmnt_id, u_in.update)>>
           /\ u_out.exc = "none"
           /\ u_body = u_in.body0

C8_Witness ==
    /\ u_pc = "returned"
    /\ ~u_in.present
    /\ u_in.update = StrSuffix(SuffixBody0)
    /\ Len(u_out.log) = 1

\* C9: update always terminates, and it never makes more than max_retries
\* attempts in the fetch phase nor more than max_retries write attempts;
\* the budgets are independent: a failure is propagated only when the fetch
\* phase has used max_retries attempts without reaching the write phase, or
\* when the write phase has used max_retries attempts, whatever the fetch
\* phase used.
C9_BoundedRetries ==
    /\ [](/\ u_run.fetch_attempts <= u_in.max_retries
          /\ u_run.write_attempts <= u_in.max_retries
          /\ u_pc = "raised" =>
                \/ u_run.fetch_attempts = u_in.max_retries /\ u_run.write_attempts = 0
                \/ u_run.write_attempts = u_in.max_retries)
    /\ (Running ~> Finished)

C9_Witness ==
    /\ u_pc = "raised"
    /\ u_in.max_retries = MaxRetries
    /\ u_run.fetch_attempts = MaxRetries
    /\ u_run.write_attempts = MaxRetries

---------------------------------------------------------------------------
(* Properties of the written body and of the differ *)

\* C11: the body written to the comment is the body of the comment object
\* the fetch returned followed by the annotation, so text that is in the
\* remote comment at fetch time is never removed by the bot's edit.
C11_WrittenBodyFromFetch ==
    (HandlerRan /\ EditIssued) => last.edit_arg = last.fetched \o last.comment_update

\* C12: for action 'created' the new text is the whole comment body; for
\* action 'edited' with len(old_body) < len(new_body) it is exactly the
\* characters of new_body from position len(old_body) on, whatever old_body
\* holds.
C12_DifferResult ==
    fn.op = "comment_diff"
        => /\ fn.action = "created" => fn.result = fn.new
           /\ (fn.action = "edited" /\ Len(fn.old) < Len(fn.new))
                 => /\ Len(fn.result) = Len(fn.new) - Len(fn.old)
                    /\ \A i \in 1..Len(fn.result) : fn.result[i] = fn.new[Len(fn.old) + i]

C12_Witness ==
    /\ fn.op = "comment_diff"
    /\ fn.action = "edited"
    /\ fn.old = BodyHi
    /\ fn.new = BodyRebuild
    /\ fn.result = DropFirst(BodyRebuild, 2)

\* C13: for an 'edited' event whose new body is as long as or shorter than
\* the old body the diff is empty, no command is recognised and no comment
\* edit is performed, whatever the new body contains.
C13_ShrinkingEditIgnored ==
    (HandlerRan /\ last.ev.action = "edited" /\ Len(last.ev.body) <= Len(last.ev.from))
        => /\ NewText = <<>>
           /\ last.comment_diff = <<>>
           /\ last.comment_update = <<>>
           /\ last.branch \in {"REJECTED", "NO_UPDATE"}
           /\ last.calls = <<>>
           /\ ~EditIssued

C13_Witness ==
    /\ HandlerRan
    /\ last.branch = "NO_UPDATE"
    /\ last.ev.action = "edited"
    /\ Len(last.ev.body) = Len(last.ev.from)
    /\ last.ev.body # last.ev.from
    /\ AnyBotCommand(last.ev.body)


---------------------------------------------------------------------------
(* Properties of the pull_request and event-type dispatch, checked under Spec *)

\* the last run handled a pull_request event
PRRan == last.type = "pull_request"

\* handle_pull_request_event got the PR and went on to look for a handler
PRFetched == PRRan /\ last.branch # "PR_NOT_FETCHED"

\* the last run invoked none of build, deploy, comment creation, comment edit
NoActionTaken ==
    /\ ~last.build
    /\ ~last.deploy
    /\ last.created = <<>>
    /\ CallCount("create_issue_comment") = 0
    /\ ~EditIssued

\* C14: for a 'labeled' pull_request event with label 'bot:build', build jobs
\* are submitted only when the build permission check passes; when it fails
\* neither build nor deploy is invoked.
C14_BuildNeedsPermission ==
    (PRRan /\ last.ev.action = "labeled" /\ last.label = "bot:build")
        => /\ last.build => check_build_permission(last.ev.sender)
           /\ ~check_build_permission(last.ev.sender) => (~last.build /\ ~last.deploy)
           /\ (PRFetched /\ check_build_permission(last.ev.sender)) => last.build

C14_Witness ==
    /\ PRFetched
    /\ last.ev.action = "labeled"
    /\ last.label = "bot:build"
    /\ ~check_build_permission(last.ev.sender)
    /\ last.branch = "BUILD_DENIED"

\* C15 as stated: for a pull_request event whose sender fails the
\* authorization check no handler side effect is executed: no deploy, no
\* comment creation, no build submission.
C15_NoEffectUnauthorized ==
    (PRRan /\ ~check_build_permission(last.ev.sender))
        => /\ ~last.deploy
           /\ CallCount("create_issue_comment") = 0
           /\ ~last.build

\* C15 amended: only the build submission depends on the sender's
\* authorization. Once the PR is fetched, label 'bot:deploy' invokes the
\* deployment and action 'opened' creates the comment (unless a GitHub call
\* raises) whether or not the sender passes the check; a build is never
\* submitted for a sender who fails it.
C15_OnlyBuildGated ==
    PRFetched
        => /\ (last.ev.action = "labeled" /\ last.label = "bot:deploy") => last.deploy
           /\ (last.ev.action = "opened" /\ ~last.raised)
                 => /\ CallCount("create_issue_comment") = 1
                    /\ last.created = OpenedComment
           /\ ~check_build_permission(last.ev.sender) => ~last.build

C15_Witness ==
    /\ PRFetched
    /\ ~check_build_permission(last.ev.sender)
    /\ last.ev.action = "labeled"
    /\ last.label = "bot:deploy"
    /\ last.deploy

\* C16: once the handler of a 'labeled' event runs, build is invoked only
\* for label 'bot:build', deploy only for label 'bot:deploy', never both,
\* and any other label is logged as having no handler, with neither build
\* nor deploy invoked and no exception.
C16_LabelDispatch ==
    (PRRan /\ last.ev.action = "labeled")
        => /\ last.build => last.label = "bot:build"
           /\ last.deploy => last.label = "bot:deploy"
           /\ ~(last.build /\ last.deploy)
           /\ (PRFetched /\ last.label \notin {"bot:build", "bot:deploy"})
                 => /\ last.branch = "NO_LABEL_HANDLER"
                    /\ last.note = "no handler for label"
                    /\ NoActionTaken
                    /\ ~last.raised

C16_Witness ==
    /\ PRFetched
    /\ last.ev.action = "labeled"
    /\ last.label = "bot:unknown"
    /\ last.note = "no handler for label"

\* the last run was of an event whose type has no registered handler
UnsupportedType == last.type # "none" /\ last.type \notin EventHandlers

\* the last run was of a pull_request event whose action has no handler
UnhandledAction == PRRan /\ ~HasPRHandler(last.ev.action)

\* C17 as stated: an event whose type has no registered handler, or a
\* pull_request event whose action has no handler, takes no action and
\* produces no error outcome.
C17_UnhandledNotAnError ==
    (UnsupportedType \/ UnhandledAction)
        => /\ NoActionTaken
           /\ last.status = 0
           /\ ~last.raised

\* C17 amended: an event whose type has no registered handler is logged and
\* takes no action, but is answered with an HTTP 400 response; a pull_request
\* event whose action has no handler takes no action and, when the PR could
\* be fetched, is logged without an error, the only error outcome being a
\* failure of get_repo or get_pull before the handler lookup.
C17_UnhandledOutcome ==
    /\ UnsupportedType
          => /\ NoActionTaken
             /\ last.note = "Unsupported event type"
             /\ last.status = 400
             /\ ~last.raised
    /\ UnhandledAction
          => /\ NoActionTaken
             /\ last.status = 0
             /\ last.exc \in {"none", "get_repo", "get_pull"}
             /\ PRFetched => (last.note = "No handler for PR action" /\ ~last.raised)
             /\ ~PRFetched => last.raised

C17_Witness ==
    /\ UnsupportedType
    /\ last.status = 400
    /\ last.note = "Unsupported event type"

\* C18: when a GitHub call made while handling an issue_comment or a
\* pull_request event fails, that failure is what leaves the handler: it is
\* the last call made, nothing after it takes effect, and the event is not
\* reported as handled.
C18_FailurePropagated ==
    (last.type \in {"issue_comment", "pull_request"} /\ last.fault # "none")
        => /\ last.exc = last.fault
           /\ last.raised
           /\ ~last.handled
           /\ last.calls # <<>>
           /\ last.calls[Len(last.calls)] = last.fault
           /\ last.created = <<>>

C18_Witness ==
    /\ HandlerRan
    /\ last.fault = "edit"
    /\ last.exc = "edit"
    /\ remote # last.edit_arg

---------------------------------------------------------------------------
(* Annotation composition *)

RECURSIVE Entries(_, _)
Entries(lines, sender) ==
    IF lines = <<>> THEN <<>>
    ELSE (IF get_bot_command(Head(lines)) # None
          THEN Entry(get_bot_command(Head(lines)), sender) ELSE <<>>)
         \o Entries(Tail(lines), sender)

\* C20: for a sender who has command permission, the annotation holds one
\* entry per line of the new text that is a command, in line order, and is
\* empty exactly when no line of the new text is a command.
C20_AnnotationComposed ==
    (HandlerRan /\ check_command_permission(last.ev.sender))
        => /\ last.comment_update = Entries(Split(NewText, NL), last.ev.sender)
           /\ (last.comment_update = <<>>) <=> ~AnyBotCommand(NewText)


---------------------------------------------------------------------------
(* Properties of the matcher, checked under PureSpec *)

\* the first word after the prefix of a trimmed line that starts with it
Keyword(t) ==
    LET ws == Words(DropFirst(t, Len(BotPrefix)))
    IN  IF ws = <<>> THEN <<>> ELSE ws[1]

KeywordAt(line, k, n) ==
    /\ n >= 5
    /\ n + Len(k) <= Len(line)
    /\ \A i \in 5..n : line[i] \in Whitespace
    /\ \A i \in 1..Len(k) : line[n + i] = k[i]
    /\ (n + Len(k) < Len(line)) => line[n + Len(k) + 1] \in Whitespace

\* the line begins, at its first character, with 'bot: ' and a keyword
BeginsWithCommand(line) ==
    /\ Len(line) >= 5
    /\ line[1] = "b" /\ line[2] = "o" /\ line[3] = "t" /\ line[4] = ":" /\ line[5] = " "
    /\ \E k \in Keywords, n \in 5..Len(line) : KeywordAt(line, k, n)

---------------------------------------------------------------------------
(* Frame of the issue_comment handler, checked under Spec *)

\* the last run of the issue_comment handler, and the run in flight, made a
\* GitHub call only on the path where a command was found in the new text and the annotation passed
\* the self-command guard
CallsOnlyOnWritePath ==
    /\ (HandlerRan /\ last.calls # <<>>)
          => /\ last.branch = "WRITE"
             /\ AnyBotCommand(NewText)
             /\ last.comment_update # <<>>
             /\ ~AnyBotCommand(last.comment_update)
    /\ inflight # NoRun
          => /\ inflight.branch = "WRITE"
             /\ AnyBotCommand(inflight.comment_diff)
             /\ inflight.comment_update # <<>>
             /\ ~AnyBotCommand(inflight.comment_update)

\* a step that changes the comment on GitHub without being a user's action
\* is a run of the issue_comment handler on the write path whose edit
\* succeeded
RemoteChangedOnlyByEdit ==
    (remote' # remote /\ nUser' = nUser)
        => /\ last'.type = "issue_comment"
           /\ last'.branch = "WRITE"
           /\ last'.calls = GitHubCalls
           /\ ~last'.raised
           /\ remote' = last'.edit_arg

\* C21: handle_issue_comment_event makes no GitHub call unless a command was
\* found in the new text and the self-command guard passed; on every other
\* path (rejected sender, empty diff, no command line, guard triggered) the
\* comment on GitHub is left unchanged.
C21_NoCallWithoutCommand ==
    /\ [](CallsOnlyOnWritePath)
    /\ [][RemoteChangedOnlyByEdit]_vars

C21_Witness ==
    /\ HandlerRan
    /\ last.branch = "REJECTED"
    /\ AnyBotCommand(last.ev.body)
    /\ last.calls = <<>>
    /\ remote = last.ev.body


\* C22: an issue_comment event whose action is neither 'created' nor
\* 'edited' (e.g. 'deleted') yields an empty diff: no command is recognised,
\* no GitHub call and no comment edit is made, and the handler returns
\* without raising, whatever the comment body contains.
C22_OtherActionIgnored ==
    (HandlerRan /\ last.ev.action \notin {"created", "edited"})
        => /\ NewText = <<>>
           /\ last.comment_diff = <<>>
           /\ last.comment_update = <<>>
           /\ last.branch \in {"REJECTED", "NO_UPDATE"}
           /\ last.calls = <<>>
           /\ ~EditIssued
           /\ ~last.raised

C22_Witness ==
    /\ HandlerRan
    /\ last.ev.action = "deleted"
    /\ AnyBotCommand(last.ev.body)
    /\ last.branch = "NO_UPDATE"
    /\ last.scanned = 1
    /\ ~last.raised


---------------------------------------------------------------------------
(* Interleaving of the handler's fetch and edit with changes on GitHub *)

\* the comment was edited by a user between the handler's get_issue_comment
\* and its edit: the bot's 'edited' event reports the user's text as the
\* previous body, not the text the handler fetched
EditAfterForeignChange ==
    /\ HandlerRan
    /\ EditIssued
    /\ ~last.raised
    /\ queue # <<>>
    /\ queue[Len(queue)].sender = BotAccount
    /\ queue[Len(queue)].body = last.edit_arg
    /\ queue[Len(queue)].from # last.fetched

====
